---- MODULE Spec2Model ----
(***************************************************************************)
(* Model of the tree-constrained beam search decoder,                      *)
(* flccpsisrc/common/model_evaluation/beam_search/search.py (BeamSearch).  *)
(*                                                                         *)
(* Numbers.  A log-probability is kept as the probability it is the log    *)
(* of, an exact fraction <<n, d>>: adding log-probabilities multiplies     *)
(* fractions, -inf is 0/1, 0.0 is 1/1 and NaN is 0/0.  A caller's row of   *)
(* logits is a row of non-negative integer weights (the exponentials of    *)
(* the logits up to a common factor, 0 for a logit of -inf) or NaNIn;      *)
(* log_softmax divides each weight by the sum of the row.  Rounding of     *)
(* floating point is not modelled.                                         *)
(*                                                                         *)
(* TreeBuilder, ChangeStatus and LineBreaker are imported by search.py     *)
(* from modules that are not part of the sources at hand; they are         *)
(* modelled from their interface (legal next ids, copy, add_id).           *)
(***************************************************************************)
EXTENDS Integers, Sequences, FiniteSets, TLC

\* Bound of the model: the number of step() calls of one session that reach the loop
\* of _step (calls that fail before it are not bounded).
MaxRounds == 2

(***************************************************************************)
(* Optional values: None, or a value.                                      *)
(***************************************************************************)
None == <<>>
Some(x) == <<x>>
Val(o) == o[1]

(***************************************************************************)
(* Scores.                                                                 *)
(***************************************************************************)
NaN == <<0, 0>>
NegInf == <<0, 1>>
Zero == <<1, 1>>
NaNIn == -1

IsNaN(s) == s[2] = 0

RECURSIVE GCD(_, _)
GCD(a, b) == IF b = 0 THEN a ELSE GCD(b, a % b)

Frac(n, d) ==
    IF d = 0 THEN NaN
    ELSE IF n = 0 THEN NegInf
    ELSE <<n \div GCD(n, d), d \div GCD(n, d)>>

\* a + b on log-probabilities (NaN is absorbing, -inf + finite = -inf)
FAdd(a, b) == IF IsNaN(a) \/ IsNaN(b) THEN NaN ELSE Frac(a[1] * b[1], a[2] * b[2])

\* a > b as torch.topk orders values: NaN is greater than every number
TopkGt(a, b) ==
    IF IsNaN(a) THEN ~IsNaN(b)
    ELSE IF IsNaN(b) THEN FALSE
    ELSE a[1] * b[2] > b[1] * a[2]

\* a > b on numbers (false when either is NaN)
FGt(a, b) == ~IsNaN(a) /\ ~IsNaN(b) /\ a[1] * b[2] > b[1] * a[2]

RECURSIVE SumSeq(_)
SumSeq(s) == IF s = <<>> THEN 0 ELSE Head(s) + SumSeq(Tail(s))

Last(s) == s[Len(s)]

(***************************************************************************)
(* The decoder's state                                                     *)
(***************************************************************************)
VARIABLES
    vocab_size,             \* self._vocab_size
    beam_size,              \* self._beam_size
    length,                 \* self._length
    terminated_hypotheses,  \* self._terminated_hypotheses
    scores,                 \* self._scores: None or one score per row
    hypotheses,             \* self._hypotheses: None or one id sequence per row
    sort_mask,              \* self._sort_mask: None or one parent row per row
    samples,                \* self._samples: None or one token per row
    row_mask,               \* self._row_mask: None or the length of the mask
    tree_builders,          \* self._tree_builders
    is_initialized,         \* self._is_initialized
    grammar,                \* the behaviour of the TreeBuilder of the session
    num_newline_nodes,      \* LineBreaker.get_num_newline_nodes()
    arg,                    \* the log_probs of the last step() call (<<>>: another shape)
    rounds,                 \* number of step() calls that ran the loop of _step
    ret,                    \* outcome of the last step() call
    printed                 \* the last step() call printed the underflow text

vars == <<vocab_size, beam_size, length, terminated_hypotheses, scores, hypotheses,
          sort_mask, samples, row_mask, tree_builders, is_initialized, grammar,
          num_newline_nodes,
          arg, rounds, ret, printed>>

config == <<vocab_size, beam_size, grammar, num_newline_nodes>>

(***************************************************************************)
(* TreeBuilder (interface model).  A builder is an instance oid holding    *)
(* the ids added so far.  The grammar of the session fixes what the        *)
(* builder answers: the legal next ids by depth (the last entry repeats),  *)
(* the ids whose add_id returns ChangeStatus.END_LINE, the ids whose       *)
(* add_id raises, and whether add_id raises on an id that is not legal.    *)
(***************************************************************************)
AllIds == 0 .. 3

Unconstrained == [legal |-> <<AllIds>>, terminal |-> {}, fails |-> {}, strict |-> FALSE]
Terminal3 == [legal |-> <<AllIds>>, terminal |-> {3}, fails |-> {}, strict |-> FALSE]
Starved == [legal |-> <<{0}>>, terminal |-> {}, fails |-> {}, strict |-> FALSE]
StarvedStrict == [legal |-> <<{0}>>, terminal |-> {}, fails |-> {}, strict |-> TRUE]
DeadEnd == [legal |-> <<{1, 2}, {}>>, terminal |-> {}, fails |-> {}, strict |-> FALSE]
LineEnd == [legal |-> <<{0, 1}, {2, 3}>>, terminal |-> {2, 3}, fails |-> {}, strict |-> TRUE]
Failing == [legal |-> <<AllIds>>, terminal |-> {3}, fails |-> {1}, strict |-> FALSE]

TreeBuilder(oid, tree) == [oid |-> oid, tree |-> tree]

\* TreeBuilder.get_next_possible_ids
get_next_possible_ids(tb) ==
    LET d == Len(tb.tree) + 1
        n == Len(grammar.legal)
    IN  grammar.legal[IF d < n THEN d ELSE n] \cap (0 .. vocab_size - 1)

\* TreeBuilder.copy: a new instance with the same content
copy(tb, oid) == TreeBuilder(oid, tb.tree)

\* TreeBuilder.add_id raises
add_id_raises(tb, id) ==
    \/ id \in grammar.fails
    \/ grammar.strict /\ id \notin get_next_possible_ids(tb)

\* TreeBuilder.add_id: the builder after the call
add_id(tb, id) == TreeBuilder(tb.oid, Append(tb.tree, id))

\* TreeBuilder.add_id: the ChangeStatus returned is END_LINE
add_id_end_line(tb, id) == id \in grammar.terminal

(***************************************************************************)
(* Sessions: vocab_size, beam_size, the number of newline nodes and the    *)
(* grammar of the tree builder handed to the constructor.                  *)
(***************************************************************************)
Sessions ==
    { [v |-> 4, b |-> 2, r |-> 1, g |-> Unconstrained],
      [v |-> 4, b |-> 2, r |-> 0, g |-> Terminal3],
      [v |-> 4, b |-> 1, r |-> 1, g |-> Terminal3],
      [v |-> 4, b |-> 2, r |-> 0, g |-> Starved],
      [v |-> 3, b |-> 3, r |-> 0, g |-> StarvedStrict],
      [v |-> 4, b |-> 2, r |-> 1, g |-> DeadEnd],
      [v |-> 4, b |-> 2, r |-> 0, g |-> LineEnd],
      [v |-> 4, b |-> 2, r |-> 1, g |-> Failing],
      [v |-> 3, b |-> 2, r |-> 1, g |-> Unconstrained] }

\* The rows of logits a caller passes (weights, see the head of the module)
InputRows ==
    { <<3, 2, 4, 1>>,
      <<1, 2, 0, 4>>,
      <<2, 0, NaNIn, 1>> }

Hypothesis(ids, tree_builder, score, is_terminated) ==
    [ids |-> ids, tree_builder |-> tree_builder, score |-> score,
     is_terminated |-> is_terminated]

\* BeamSearch.__init__
Init ==
    /\ \E s \in Sessions :
        /\ vocab_size = s.v
        /\ beam_size = s.b
        /\ num_newline_nodes = s.r
        /\ grammar = s.g
    /\ length = 1
    /\ terminated_hypotheses = <<>>
    /\ scores = None
    /\ hypotheses = None
    /\ sort_mask = None
    /\ samples = None
    /\ row_mask = None
    /\ tree_builders = <<TreeBuilder(<<0, 0>>, <<>>)>>
    /\ is_initialized = FALSE
    /\ arg = <<>>
    /\ rounds = 0
    /\ ret = "init"
    /\ printed = FALSE

\* BeamSearch.terminated_hypotheses
get_terminated_hypotheses == terminated_hypotheses

\* BeamSearch.batch_size
batch_size == IF scores = None THEN 1 ELSE Len(Val(scores))

\* BeamSearch.current_hypotheses raises (zip over None)
current_hypotheses_raises == hypotheses = None \/ scores = None

\* BeamSearch.current_hypotheses: zip stops at the shortest of the three
current_hypotheses ==
    LET n == CHOOSE m \in 0 .. Len(tree_builders) :
                 /\ m <= Len(Val(hypotheses)) /\ m <= Len(Val(scores))
                 /\ (m = Len(tree_builders) \/ m = Len(Val(hypotheses)) \/ m = Len(Val(scores)))
    IN  [j \in 1 .. n |-> Hypothesis(Val(hypotheses)[j], tree_builders[j], Val(scores)[j], FALSE)]

\* last_predictions asserting only self._hypotheses is not None
last_predictions_raises_none_only == hypotheses = None

\* BeamSearch.last_predictions raises: the assertion on self._hypotheses fails
last_predictions_raises == hypotheses = None \/ Len(Val(hypotheses)[1]) = 0

\* BeamSearch.last_predictions: self._hypotheses[:, -1]
last_predictions ==
    [j \in 1 .. Len(Val(hypotheses)) |-> Val(hypotheses)[j][Len(Val(hypotheses)[1])]]

(***************************************************************************)
(* step(log_probs)                                                         *)
(***************************************************************************)
\* The state _init_state leaves: scores, hypotheses (row_mask is sized by the caller's
\* tensor, see the actions).  It is entered only while is_initialized is false.
init_scores == Some(<<Zero>>)
init_hypotheses == Some(<<<<>>>>)

\* the assertion of _init_state
init_assert == scores = None /\ hypotheses = None

\* the values step() works on once _init_state has run, or was skipped
cur_scores == IF is_initialized THEN scores ELSE init_scores
cur_hypotheses == IF is_initialized THEN hypotheses ELSE init_hypotheses

\* one row of _preprocess_log_probs: the ids that are not possible get -inf
mask_row(row, tb) ==
    [c \in 1 .. Len(row) |-> IF (c - 1) \in get_next_possible_ids(tb) THEN row[c] ELSE 0] \o <<>>

\* torch.nn.functional.log_softmax on one row
log_softmax(row) ==
    LET total == SumSeq(row)
        has_nan == \E x \in 1 .. Len(row) : row[x] = NaNIn
    IN  [c \in 1 .. Len(row) |-> IF has_nan THEN NaN ELSE Frac(row[c], total)] \o <<>>

\* BeamSearch._preprocess_log_probs
preprocess_log_probs(log_probs) ==
    [r \in 1 .. Len(log_probs) |-> log_softmax(mask_row(log_probs[r], tree_builders[r]))] \o <<>>

\* _step without log_probs.add_(self._scores.unsqueeze(1))
flat_scores_no_add(log_probs, sc) ==
    [p \in 1 .. (Len(log_probs) * vocab_size) |->
        log_probs[((p - 1) \div vocab_size) + 1][((p - 1) % vocab_size) + 1]] \o <<>>

\* _step: log_probs.add_(self._scores.unsqueeze(1)) and torch.flatten; the candidate
\* of flat index ind is entry ind + 1 of the sequence
flat_scores(log_probs, sc) ==
    [p \in 1 .. (Len(log_probs) * vocab_size) |->
        FAdd(sc[((p - 1) \div vocab_size) + 1],
             log_probs[((p - 1) \div vocab_size) + 1][((p - 1) % vocab_size) + 1])] \o <<>>

\* torch.topk asked for beam_size candidates only
topk_k_beam_size == beam_size

\* the k of torch.topk in _step
topk_k == (1 + num_newline_nodes) * beam_size

\* torch.topk(flat, k, sorted=False) returns the flat indices of k greatest entries,
\* ties at the k-th value broken in any way, in any order.  topk_sets gives the
\* indices every result holds (forced) and those tied at the k-th value (boundary).
topk_sets(flat, k) ==
    LET Idx == 0 .. Len(flat) - 1
        above(i) == Cardinality({j \in Idx : TopkGt(flat[j + 1], flat[i + 1])})
        same(i) == Cardinality({j \in Idx : ~TopkGt(flat[j + 1], flat[i + 1])
                                            /\ ~TopkGt(flat[i + 1], flat[j + 1])})
        forced == {i \in Idx : above(i) + same(i) <= k}
    IN  [forced |-> forced, boundary |-> {i \in Idx : above(i) < k} \ forced]

\* the indices that can come next in a result of torch.topk after the indices in taken
topk_next(sets, k, taken) ==
    IF Cardinality(taken) >= k THEN {}
    ELSE IF Cardinality(taken \cap sets.boundary) < k - Cardinality(sets.forced)
    THEN (sets.forced \cup sets.boundary) \ taken
    ELSE sets.forced \ taken

\* _save_terminated without hyp_inds.append(sample_ind)
save_terminated_parent_ids(hy, hyp_ind, sample_ind, score, tree_builder) ==
    Hypothesis(hy[hyp_ind + 1], tree_builder, score, TRUE)

\* BeamSearch._save_terminated: the hypothesis appended
save_terminated(hy, hyp_ind, sample_ind, score, tree_builder) ==
    Hypothesis(Append(hy[hyp_ind + 1], sample_ind), tree_builder, score, TRUE)

\* _step without the break on a full beam
loop_done_never(drafted) == FALSE

\* _step: the test that ends the loop, len(samples) == self._beam_size
loop_done(drafted) == Len(drafted) = beam_size

\* _step advancing the builder of the parent row itself, without copy()
candidate_builder_shared(hyp_ind, ind) == tree_builders[hyp_ind + 1]

\* _step: tree_builder = self._tree_builders[hyp_ind].copy(); the new instance is
\* named after the call and the candidate it is made for
candidate_builder(hyp_ind, ind) == copy(tree_builders[hyp_ind + 1], <<rounds + 1, ind>>)

\* _step without the break on a NaN score
scan_stops_never(score) == FALSE

\* _step: the test that ends the scan, torch.isnan(score)
scan_stops(score) == IsNaN(score)

\* _step, the loop over zip(sorted_inds, sorted_scores), after the candidates in taken:
\* the set of what the loop can leave, over the results torch.topk may return.  acc
\* holds the four lists of the loop, the hypotheses appended to terminated, and raised.
RECURSIVE dispatch(_, _, _, _, _)
dispatch(flat, sets, hy, taken, acc) ==
    LET nexts == topk_next(sets, topk_k, taken)
        one(ind) ==
            LET score == flat[ind + 1]
                hyp_ind == ind \div vocab_size
                token_ind == ind % vocab_size
                tb == candidate_builder(hyp_ind, ind)
                nb == add_id(tb, token_ind)
                next ==
                    IF add_id_end_line(tb, token_ind)
                    THEN [acc EXCEPT !.terminated =
                            Append(@, save_terminated(hy, hyp_ind, token_ind, score, nb))]
                    ELSE [acc EXCEPT !.samples = Append(@, token_ind),
                                     !.tree_builders = Append(@, nb),
                                     !.sort_mask = Append(@, hyp_ind),
                                     !.sample_scores = Append(@, score)]
            IN  IF scan_stops(score) THEN {acc}
                ELSE IF add_id_raises(tb, token_ind) THEN {[acc EXCEPT !.raised = TRUE]}
                ELSE IF loop_done(next.samples) THEN {next}
                ELSE dispatch(flat, sets, hy, taken \cup {ind}, next)
    IN  IF nexts = {} THEN {acc} ELSE UNION {one(ind) : ind \in nexts}

\* BeamSearch._step up to the end of the loop
loop_results(flat) ==
    dispatch(flat, topk_sets(flat, topk_k), Val(cur_hypotheses), {},
             [samples |-> <<>>, tree_builders |-> <<>>, sort_mask |-> <<>>,
              sample_scores |-> <<>>, terminated |-> <<>>, raised |-> FALSE])

\* _save_terminated assigning a new list instead of appending
terminated_after_reset(saved) == saved

\* self._terminated_hypotheses after the appends of _save_terminated in one call
terminated_after(saved) == terminated_hypotheses \o saved

\* _update_state without the torch.cat of the samples
update_hypotheses_no_cat(hy, mask, smp) ==
    [j \in 1 .. Len(mask) |-> hy[mask[j] + 1]]

\* BeamSearch._update_state: self._hypotheses[sort_mask] with the samples appended
update_hypotheses(hy, mask, smp) ==
    [j \in 1 .. Len(mask) |-> Append(hy[mask[j] + 1], smp[j])]

\* The tensors a caller passes: a matrix of the expected shape (its rows matter), a
\* matrix of another shape <<rows, columns>>, or a tensor of one dimension.
good_inputs == [1 .. Len(Val(cur_scores)) -> {SubSeq(r, 1, vocab_size) : r \in InputRows}]
OtherShapes == {<<r, c>> : r \in {1, 4}, c \in {vocab_size, vocab_size + 1}}

cur_row_mask == IF is_initialized THEN row_mask ELSE Some(vocab_size)

\* the outcome of a call of step() that fails before the loop of _step
Failed(outcome) ==
    /\ arg' = <<>>
    /\ ret' = outcome
    /\ printed' = FALSE
    /\ UNCHANGED rounds

\* the outcome of a call of step() with a matrix of the expected shape that fails
\* before the loop of _step
Rejected(log_probs, outcome) ==
    /\ arg' = log_probs
    /\ ret' = outcome
    /\ printed' = FALSE
    /\ UNCHANGED rounds

\* the outcome of a call of step() that ran the loop of _step
Looped(log_probs, outcome, text) ==
    /\ arg' = log_probs
    /\ rounds' = rounds + 1
    /\ ret' = outcome
    /\ printed' = text

\* step(): _init_state was left half-way by an earlier call, its assertion fails
StepInitAsserts ==
    /\ ~is_initialized /\ ~init_assert
    /\ Failed("AssertionError in _init_state")
    /\ UNCHANGED <<config, length, terminated_hypotheses, scores, hypotheses, sort_mask,
                   samples, row_mask, tree_builders, is_initialized>>

\* step() with a tensor of one dimension: log_probs.size(1) raises in _init_state on
\* the first call, the assertion of _step_check fails on a later one
StepOneDim ==
    /\ is_initialized \/ init_assert
    /\ Failed(IF is_initialized THEN "AssertionError in _step_check" ELSE "IndexError")
    /\ scores' = cur_scores
    /\ hypotheses' = cur_hypotheses
    /\ UNCHANGED <<config, length, terminated_hypotheses, sort_mask, samples, row_mask,
                   tree_builders, is_initialized>>

\* step() with a matrix whose shape is not (batch_size, vocab_size): _step_check fails
StepShapeMismatch(shape) ==
    /\ is_initialized \/ init_assert
    /\ shape # <<Len(Val(cur_scores)), vocab_size>>
    /\ Failed("AssertionError in _step_check")
    /\ scores' = cur_scores
    /\ hypotheses' = cur_hypotheses
    /\ row_mask' = IF is_initialized THEN row_mask ELSE Some(shape[2])
    /\ is_initialized' = TRUE
    /\ UNCHANGED <<config, length, terminated_hypotheses, sort_mask, samples, tree_builders>>

\* step() with a matrix of the right shape when _row_mask was sized by another tensor:
\* the indexing of _preprocess_log_probs raises
StepMaskError(log_probs) ==
    /\ is_initialized \/ init_assert
    /\ log_probs \in good_inputs
    /\ Val(cur_row_mask) # vocab_size
    /\ Rejected(log_probs, "IndexError")
    /\ UNCHANGED <<config, length, terminated_hypotheses, scores, hypotheses, sort_mask,
                   samples, row_mask, tree_builders, is_initialized>>

\* step() up to torch.topk, which raises when k exceeds the number of candidates
StepTopkFails(log_probs) ==
    /\ is_initialized \/ init_assert
    /\ log_probs \in good_inputs
    /\ Val(cur_row_mask) = vocab_size
    /\ topk_k > Len(log_probs) * vocab_size
    /\ Rejected(log_probs, "RuntimeError")
    /\ scores' = cur_scores
    /\ hypotheses' = cur_hypotheses
    /\ row_mask' = cur_row_mask
    /\ is_initialized' = TRUE
    /\ UNCHANGED <<config, length, terminated_hypotheses, sort_mask, samples, tree_builders>>

\* _preprocess_log_probs and _step up to the end of the loop
step_results(log_probs) ==
    loop_results(flat_scores(preprocess_log_probs(log_probs), Val(cur_scores)))

Selects(log_probs) ==
    /\ is_initialized \/ init_assert
    /\ log_probs \in good_inputs
    /\ Val(cur_row_mask) = vocab_size
    /\ topk_k <= Len(log_probs) * vocab_size
    /\ rounds < MaxRounds

\* step() when add_id raises in the loop: the exception leaves step()
StepAdvanceRaises(log_probs) ==
    /\ Selects(log_probs)
    /\ \E acc \in step_results(log_probs) :
            /\ acc.raised
            /\ terminated_hypotheses' = terminated_after(acc.terminated)
    /\ Looped(log_probs, "Exception", FALSE)
    /\ scores' = cur_scores
    /\ hypotheses' = cur_hypotheses
    /\ row_mask' = cur_row_mask
    /\ is_initialized' = TRUE
    /\ UNCHANGED <<config, length, sort_mask, samples, tree_builders>>

\* step() when the loop leaves samples empty: returns None
StepCollapse(log_probs) ==
    /\ Selects(log_probs)
    /\ \E acc \in step_results(log_probs) :
            /\ ~acc.raised
            /\ acc.samples = <<>>
            /\ terminated_hypotheses' = terminated_after(acc.terminated)
    /\ Looped(log_probs, "None", FALSE)
    /\ scores' = cur_scores
    /\ hypotheses' = cur_hypotheses
    /\ row_mask' = cur_row_mask
    /\ is_initialized' = TRUE
    /\ UNCHANGED <<config, length, sort_mask, samples, tree_builders>>

\* step() when the loop drafted samples: _update_state, returns self._sort_mask
StepCommit(log_probs) ==
    /\ Selects(log_probs)
    /\ \E acc \in step_results(log_probs) :
            /\ ~acc.raised
            /\ acc.samples # <<>>
            /\ terminated_hypotheses' = terminated_after(acc.terminated)
            /\ Looped(log_probs, "sort_mask", Len(acc.samples) < beam_size)
            /\ samples' = Some(acc.samples)
            /\ sort_mask' = Some(acc.sort_mask)
            /\ scores' = Some(acc.sample_scores)
            /\ tree_builders' = acc.tree_builders
            /\ hypotheses' = Some(update_hypotheses(Val(cur_hypotheses), acc.sort_mask, acc.samples))
    /\ length' = length + 1
    /\ row_mask' = cur_row_mask
    /\ is_initialized' = TRUE
    /\ UNCHANGED config

Next ==
    \/ StepInitAsserts
    \/ StepOneDim
    \/ \E shape \in OtherShapes : StepShapeMismatch(shape)
    \/ \E log_probs \in good_inputs : StepMaskError(log_probs)
    \/ \E log_probs \in good_inputs : StepTopkFails(log_probs)
    \/ \E log_probs \in good_inputs : StepAdvanceRaises(log_probs)
    \/ \E log_probs \in good_inputs : StepCollapse(log_probs)
    \/ \E log_probs \in good_inputs : StepCommit(log_probs)

Spec == Init /\ [][Next]_vars
(***************************************************************************)
(* Properties.  A step of the model is one call of step(); unprimed        *)
(* variables are the state before the call, primed ones the state after.   *)
(***************************************************************************)
\* the call ran the loop of _step
LoopRan == rounds' = rounds + 1

\* the call returned a sort mask
Committed == LoopRan /\ ret' = "sort_mask"

\* the flattened candidate scores of the call
call_flat == flat_scores(preprocess_log_probs(arg'), Val(cur_scores))

\* the positions in terminated of the hypotheses the call appended
new_terminated == (Len(terminated_hypotheses) + 1) .. Len(terminated_hypotheses')

\* the flat index of the candidate a terminated hypothesis of this call came from
cand_of(h) == h.tree_builder.oid[2]

\* the flat indices of the candidates the call committed as rows
committed_inds ==
    {Val(sort_mask')[j] * vocab_size + Val(samples')[j] : j \in 1 .. Len(Val(sort_mask'))}

IsPrefix(s, t) == Len(s) <= Len(t) /\ SubSeq(t, 1, Len(s)) = s

\* C1: no candidate that a call turns into a continuing or a terminated hypothesis has
\* a token id outside the legal next ids its parent row's tree builder reported.
C1_MaskingCorrect ==
    [][LoopRan =>
        /\ ret' = "sort_mask" =>
              \A j \in 1 .. Len(Val(sort_mask')) :
                  Val(samples')[j] \in get_next_possible_ids(tree_builders[Val(sort_mask')[j] + 1])
        /\ \A n \in new_terminated :
              LET h == terminated_hypotheses'[n]
              IN  Last(h.ids) \in
                      get_next_possible_ids(tree_builders[(cand_of(h) \div vocab_size) + 1])]_vars

\* C2: the candidates are dispatched in descending score order, so the rows committed
\* are the highest-scoring candidates that do not end the line; with vocab_size 4,
\* beam_size 2, an unconstrained builder and first scores ordered as
\* [-0.1, -2.0, -0.05, -3.0], the rows are token 2 then token 0, the sort mask is
\* [0, 0] and terminated stays empty.
C2_DescendingDispatch ==
    [][Committed =>
        \A flat \in {call_flat} :
            /\ \A j \in 1 .. (Len(Val(scores')) - 1) :
                  ~FGt(Val(scores')[j + 1], Val(scores')[j])
            /\ \A ind \in (0 .. Len(flat) - 1) \ committed_inds :
                  \/ (ind % vocab_size) \in grammar.terminal
                  \/ \A j \in 1 .. Len(Val(scores')) : ~FGt(flat[ind + 1], Val(scores')[j])
            /\ (/\ vocab_size = 4 /\ beam_size = 2 /\ grammar = Unconstrained
                /\ rounds = 0 /\ arg' = <<<<3, 2, 4, 1>>>>)
               => /\ samples' = Some(<<2, 0>>)
                  /\ sort_mask' = Some(<<0, 0>>)
                  /\ terminated_hypotheses' = <<>>]_vars

\* C3: a returned sort mask has the length of the new active beam, which is at most
\* beam_size, and its values are rows of the previous active beam.
C3_SortMaskShape ==
    [][Committed =>
        /\ Len(Val(sort_mask')) = batch_size'
        /\ Len(Val(sort_mask')) = Len(tree_builders')
        /\ Len(Val(sort_mask')) = Len(Val(hypotheses'))
        /\ batch_size' <= beam_size
        /\ \A j \in 1 .. Len(Val(sort_mask')) :
              Val(sort_mask')[j] \in 0 .. (batch_size - 1)]_vars

C3_Witness ==
    /\ ret = "sort_mask" /\ rounds = 2
    /\ Len(Val(sort_mask)) = 2 /\ Val(sort_mask)[1] = 1

\* C4: when step() returns None the active beam is empty: the accessors show no
\* active hypothesis.
C4_NoneLeavesBeamEmpty ==
    ret = "None" =>
        /\ ~current_hypotheses_raises
        /\ Len(current_hypotheses) = 0
        /\ batch_size = 0

\* C5: a candidate whose advance reports END_LINE is appended to terminated with the
\* parent's ids before the call plus its token, the candidate's score and
\* is_terminated true, and it takes no beam slot: unless a NaN ended the scan, the
\* call ends with beam_size rows or has dispatched all its k candidates.
C5_TerminatedTakesNoSlot ==
    [][LoopRan =>
        \A flat \in {call_flat} :
            /\ \A n \in new_terminated :
                  LET h == terminated_hypotheses'[n]
                      ind == cand_of(h)
                  IN  /\ ind \in 0 .. (Len(flat) - 1)
                      /\ h.ids = Append(Val(cur_hypotheses)[(ind \div vocab_size) + 1],
                                        ind % vocab_size)
                      /\ h.score = flat[ind + 1]
                      /\ h.is_terminated
                      /\ add_id_end_line(tree_builders[(ind \div vocab_size) + 1],
                                         ind % vocab_size)
            /\ (ret' \in {"sort_mask", "None"} /\ \A p \in 1 .. Len(flat) : ~IsNaN(flat[p]))
               => LET rows == IF ret' = "sort_mask" THEN Len(Val(scores')) ELSE 0
                  IN  \/ rows = beam_size
                      \/ rows + Cardinality(new_terminated) = topk_k]_vars

C5_Witness ==
    /\ ret = "sort_mask"
    /\ Len(Val(scores)) = beam_size
    /\ \E n \in 1 .. Len(terminated_hypotheses) :
          terminated_hypotheses[n].tree_builder.oid[1] = rounds

\* the candidates of flat that are legal for their row's builder, do not end the line
\* and have a finite score
legal_continuing(flat) ==
    {ind \in 0 .. (Len(flat) - 1) :
        /\ (ind % vocab_size) \in get_next_possible_ids(tree_builders[(ind \div vocab_size) + 1])
        /\ ~add_id_end_line(tree_builders[(ind \div vocab_size) + 1], ind % vocab_size)
        /\ FGt(flat[ind + 1], NegInf)}

\* C6: with at least one and fewer than beam_size legal continuing candidates (and no
\* NaN among the scores) step() does not fail: it commits as many rows as there are
\* legal continuing candidates and prints the underflow text.
C6_UnderflowCommits ==
    [][LoopRan =>
        \A flat \in {call_flat} :
            (/\ \A p \in 1 .. Len(flat) : ~IsNaN(flat[p])
             /\ Cardinality(legal_continuing(flat)) >= 1
             /\ Cardinality(legal_continuing(flat)) < beam_size)
            => /\ ret' = "sort_mask"
               /\ Len(Val(scores')) = Cardinality(legal_continuing(flat))
               /\ printed']_vars

\* C7: every active hypothesis has as many ids as calls have committed (length - 1),
\* and every hypothesis a call produces is one id longer than its parent.
C7_LockStep ==
    /\ [](hypotheses # None =>
            \A j \in 1 .. Len(Val(hypotheses)) : Len(Val(hypotheses)[j]) = length - 1)
    /\ [][LoopRan =>
            /\ Committed =>
                  \A j \in 1 .. Len(Val(hypotheses')) :
                      Len(Val(hypotheses')[j])
                          = Len(Val(cur_hypotheses)[Val(sort_mask')[j] + 1]) + 1
            /\ \A n \in new_terminated :
                  Len(terminated_hypotheses'[n].ids)
                      = Len(Val(cur_hypotheses)[(cand_of(terminated_hypotheses'[n])
                                                    \div vocab_size) + 1]) + 1]_vars

C7_Witness ==
    /\ ret = "sort_mask" /\ length = 3
    /\ Len(Val(hypotheses)) = 2
    /\ terminated_hypotheses # <<>>

\* C8: no call removes, replaces or re-orders an element of terminated.
C8_TerminatedOnlyGrows ==
    [][IsPrefix(terminated_hypotheses, terminated_hypotheses')]_vars

C8_Witness ==
    /\ ret = "Exception"
    /\ \E n \in 1 .. Len(terminated_hypotheses) : terminated_hypotheses[n].tree_builder.oid[1] = 1
    /\ \E n \in 1 .. Len(terminated_hypotheses) : terminated_hypotheses[n].tree_builder.oid[1] = 2

\* C9: a call rejected for the shape of its scores changes nothing of the decoder
\* state, also when it is the first call.
C9_RejectionChangesNothing ==
    [][ret' = "AssertionError in _step_check" =>
        UNCHANGED <<scores, hypotheses, tree_builders, is_initialized,
                    terminated_hypotheses>>]_vars

\* C10: a failure of copy or add_id for one candidate excludes that candidate only:
\* the call still ends by committing or by returning None.
C10_CandidateFailureIsLocal ==
    [][LoopRan => ret' \in {"sort_mask", "None"}]_vars

\* C11: right after construction, before any call of step(), batch_size is 1 and
\* current_hypotheses returns exactly one hypothesis: no ids, the builder handed to the
\* constructor, score 0, not terminated.
C11_InitialBeam ==
    ret = "init" =>
        /\ batch_size = 1
        /\ ~current_hypotheses_raises
        /\ current_hypotheses = <<Hypothesis(<<>>, TreeBuilder(<<0, 0>>, <<>>), Zero, FALSE)>>

\* C12: no active and no terminated hypothesis ever has a NaN score; a call whose
\* candidate scores hold a NaN does not raise: the scan stops at the NaN (torch.topk
\* puts NaN first, and a NaN fills whole rows, so at its first candidate) and the
\* call returns None with nothing appended to terminated and the beam as it was.
C12_NaNEndsScan ==
    /\ [](/\ scores # None => \A j \in 1 .. Len(Val(scores)) : ~IsNaN(Val(scores)[j])
          /\ \A n \in 1 .. Len(terminated_hypotheses) :
                ~IsNaN(terminated_hypotheses[n].score))
    /\ [][(LoopRan /\ \E flat \in {call_flat} : \E p \in 1 .. Len(flat) : IsNaN(flat[p]))
            => /\ ret' = "None"
               /\ terminated_hypotheses' = terminated_hypotheses
               /\ tree_builders' = tree_builders
               /\ scores' = cur_scores
               /\ hypotheses' = cur_hypotheses]_vars

C12_Witness ==
    /\ ret = "None" /\ rounds = 2 /\ length = 2
    /\ Len(arg) = 2
    /\ \E c \in 1 .. vocab_size : arg[1][c] = NaNIn
    /\ \A c \in 1 .. vocab_size : arg[2][c] # NaNIn

\* C13: while no call of step() has committed (length is 1), whether none was made or
\* the calls made were rejected or returned None, last_predictions raises; once a call
\* has committed it returns one token per active row, the last id of that row's
\* hypothesis, which is the token the last commit chose for the row.
C13_LastPredictions ==
    /\ length = 1 => last_predictions_raises
    /\ length > 1 =>
          /\ ~last_predictions_raises
          /\ Len(last_predictions) = batch_size
          /\ \A j \in 1 .. batch_size :
                last_predictions[j] = Last(current_hypotheses[j].ids)
          /\ last_predictions = Val(samples)

C13_Witness ==
    /\ ret = "None" /\ length = 1 /\ rounds = 1
    /\ hypotheses = init_hypotheses
    /\ last_predictions_raises

\* C14: after a committing call, row j of the new beam has the ids its parent row
\* sort_mask[j] had before the call followed by the chosen token, the parent's score
\* before the call plus the renormalized log-probability of the token in the parent's
\* row, and a builder that is a new instance holding the parent's builder content
\* advanced by the token; ids, scores and builders have the same length.
C14_CommitAlignment ==
    [][Committed =>
        \A lp \in {preprocess_log_probs(arg')} :
            /\ Len(Val(hypotheses')) = Len(Val(sort_mask'))
            /\ Len(Val(scores')) = Len(Val(sort_mask'))
            /\ Len(tree_builders') = Len(Val(sort_mask'))
            /\ \A j \in 1 .. Len(Val(sort_mask')) :
                  LET par == Val(sort_mask')[j] + 1
                      tok == Val(samples')[j]
                  IN  /\ Val(hypotheses')[j] = Append(Val(cur_hypotheses)[par], tok)
                      /\ Val(scores')[j] = FAdd(Val(cur_scores)[par], lp[par][tok + 1])
                      /\ tree_builders'[j].tree = Append(tree_builders[par].tree, tok)
                      /\ tree_builders'[j].oid # tree_builders[par].oid]_vars

C14_Witness ==
    /\ ret = "sort_mask" /\ rounds = 2 /\ length = 3
    /\ Val(sort_mask) = <<1, 0>>
    /\ Val(scores)[1] # Zero /\ FGt(Val(scores)[1], NegInf)
    /\ Val(samples)[1] # Val(samples)[2]

\* the builders held by the hypotheses, active then terminated
owned_builders ==
    tree_builders \o [n \in 1 .. Len(terminated_hypotheses) |->
                        terminated_hypotheses[n].tree_builder]

\* C15: no two hypotheses, active or terminated, hold the same builder instance, and
\* no call advances a builder a hypothesis held before the call: an instance that is
\* still held after the call has the content it had before.
C15_NoBuilderAliasing ==
    /\ [](\A i, j \in 1 .. Len(owned_builders) :
              i # j => owned_builders[i].oid # owned_builders[j].oid)
    /\ [][\A i \in 1 .. Len(owned_builders) : \A j \in 1 .. Len(owned_builders') :
              owned_builders'[j].oid = owned_builders[i].oid
                  => owned_builders'[j].tree = owned_builders[i].tree]_vars

C15_Witness ==
    /\ ret = "sort_mask"
    /\ Len(tree_builders) = 2
    /\ Val(sort_mask) = <<0, 0>>
    /\ \E n \in 1 .. Len(terminated_hypotheses) :
          /\ terminated_hypotheses[n].tree_builder.oid[1] = rounds
          /\ cand_of(terminated_hypotheses[n]) \div vocab_size = 0

\* C16: a call that gets as far as the selection asks torch.topk for
\* K = (1 + R) * beam_size candidates whatever the number of candidates: when K is
\* greater than batch_size * vocab_size the call raises, commits nothing and leaves the
\* active beam (rows, ids, scores, builders; a beam not yet initialized read as its
\* initial row) and terminated as they were; otherwise the selection does not raise.
C16_TopkSizeFixed ==
    [][(arg' # <<>> /\ ret' # "IndexError") =>
        \A K \in {(1 + num_newline_nodes) * beam_size} :
            IF K > batch_size * vocab_size
            THEN /\ ret' = "RuntimeError"
                 /\ batch_size' = batch_size
                 /\ scores' = cur_scores
                 /\ hypotheses' = cur_hypotheses
                 /\ UNCHANGED <<tree_builders, terminated_hypotheses, length, sort_mask,
                                samples>>
            ELSE /\ ret' # "RuntimeError"
                 /\ LoopRan]_vars

C16_Witness ==
    /\ ret = "RuntimeError"
    /\ topk_k = 4 /\ batch_size * vocab_size = 3
    /\ is_initialized /\ scores = init_scores /\ length = 1
    /\ Len(arg) = 1
====
